---- MODULE Spec2Model ----
(***************************************************************************)
(* The useLocationTracking hook (src/src/hooks/useLocationTracking.ts) as  *)
(* a state machine on one event loop.  Every action is one macrotask: a    *)
(* call of the hook's API, a browser callback (geolocation watch, interval *)
(* timer), or the resumption of an async function after an await.          *)
(***************************************************************************)
EXTENDS Integers, FiniteSets, Sequences, Bags, TLC

\* ------------------------------------------------------------------ bounds
\* async functions (startTracking calls, interval ticks, sink writes) in flight
MaxTasks == 2
\* ids the browser can hand out for watches, and for interval timers
MaxHandles == 2
\* distinct positions the sensor can report
MaxPos == 2
\* directions requests of LiveMapView awaiting their callback
MaxRequests == 2
\* polyline objects LiveMapView can have attached to the map
MaxPolylines == 2

\* ------------------------------------------------------------ value spaces
\* useRef<number | null>(null): the null handle
NoHandle == 0
\* useState<string | null>(null): the null error
NoError == "null"
\* useState<LocationData | null>(null): an option is a sequence of length <= 1
NoLocation == << >>

HandleIds == 1..MaxHandles

\* driverId?: string  -- undefined/empty, the "all" sentinel, a specific driver
Subjects == {"", "all", "d1"}

\* GeolocationPosition values the sensor may deliver
Positions ==
    {[latitude |-> 10 + i, longitude |-> 70 + i, timestamp |-> 1000 * i] : i \in 1..MaxPos}

\* updateLocation's arguments and its Date.now() reading (never equal to a
\* sensor timestamp here)
ManualFixes ==
    {[lat |-> 20 + i, lng |-> 80 + i, timestamp |-> 1000 * i + 1] : i \in 1..MaxPos}

\* permission.state as startTracking reads it: it tests only === 'denied', so
\* 'prompt' and 'granted' are one case for the hook
PermissionStates == {"granted", "denied"}

\* GeolocationPositionError codes
Causes == {"PERMISSION_DENIED", "POSITION_UNAVAILABLE", "TIMEOUT"}

\* outcomes of the supabase update
SinkOutcomes == {"ok", "error"}

\* last_location_update of a persisted row, as the realtime callback reads it:
\* the client clock when the write started (never a sensor timestamp here)
WriteTimes == {1000 * i + 2 : i \in 1..MaxPos}

\* DriverLocationTracker: useState<PermissionState | null>(null)
NoStatus == "null"
TrackerStatuses == {NoStatus, "granted", "denied", "prompt"}

\* ---------------------------------------------------------------- messages
\* each error string of the hook, cut to its first sentence; a failed update
\* shows err.message or 'Failed to update location', one value here
UnsupportedMsg == "Geolocation is not supported by this browser."
BlockedMsg == "Location permission is blocked."
UnavailableMsg == "Location information is unavailable."
RequestTimeoutMsg == "Location request timed out."
RevokedMsg == "Location permission was revoked."
SignalLostMsg == "Location signal lost."
WatchTimeoutMsg == "Location tracking timed out. Retrying..."
UpdateFailedMsg == "Failed to update location"

VARIABLES
    driverId,         \* the hook's argument at the latest render
    mounted,          \* the owning component is mounted
    geoSupported,     \* navigator.geolocation exists
    hasPermissionsApi,\* 'permissions' in navigator
    permState,        \* the browser's geolocation permission
    currentLocation,  \* useState currentLocation
    isTracking,       \* useState isTracking
    error,            \* useState error
    watchIdRef,       \* watchIdRef.current
    intervalRef,      \* intervalRef.current
    watches,          \* watches registered with the browser and not cleared
    intervals,        \* interval timers registered and not cleared
    tasks,            \* bag of async functions suspended at an await
    deactivated,      \* stopTracking ran and startTracking has not been called since
    channels,         \* subjects whose realtime channel is subscribed
    echoes,           \* realtime UPDATE notifications on their way to the hook
    permissionStatus, \* DriverLocationTracker: useState permissionStatus
    hasPermission,    \* DriverLocationTracker: useState hasPermission
    permissionListener,\* DriverLocationTracker: its 'change' listener is attached
    trackingData,     \* LiveMapView: rows of useRealtimeTracking
    selectedDriver,   \* LiveMapView: the driver filter
    mapLoaded,        \* LiveMapView: useState mapLoaded
    mapMarkers,       \* markers attached to the google map
    markersRef,       \* markersRef.current: keys -> markers
    mapPolylines,     \* polylines attached to the google map
    polylinesRef,     \* polylinesRef.current: keys -> polylines
    routeRequests     \* directions requests awaiting their callback

\* the realtime feed of the hook, the state of DriverLocationTracker, the
\* state of LiveMapView
feedVars == <<channels, echoes>>
trackerVars == <<permissionStatus, hasPermission, permissionListener>>
mapVars == <<trackingData, selectedDriver, mapLoaded, mapMarkers, markersRef,
             mapPolylines, polylinesRef, routeRequests>>

\* the state of the hook proper
hookVars == <<driverId, mounted, geoSupported, hasPermissionsApi, permState,
              currentLocation, isTracking, error, watchIdRef, intervalRef,
              watches, intervals, tasks, deactivated>>

vars == <<driverId, mounted, geoSupported, hasPermissionsApi, permState,
          currentLocation, isTracking, error, watchIdRef, intervalRef,
          watches, intervals, tasks, deactivated, feedVars, trackerVars, mapVars>>

\* ----------------------------------------------------------------- helpers
\* a locationData that drops the position's timestamp
LocationDataNoTimestamp(position) ==
    [lat |-> position.latitude, lng |-> position.longitude, timestamp |-> 0]

\* locationData built from a GeolocationPosition
LocationData(position) ==
    [lat |-> position.latitude, lng |-> position.longitude,
     timestamp |-> position.timestamp]

\* a suspended async function: kind is the function, pc the await it sits at
\* ("landed": at the await of the update, the row already written),
\* subject the driverId its closure captured, denied whether its
\* permissions.query answered 'denied', write the (lat, lng) handed to
\* updateDriverLocation
Task(kind, pc, subject, denied, write) ==
    [kind |-> kind, pc |-> pc, subject |-> subject, denied |-> denied, write |-> write]

AddTask(T, t) == T (+) SetToBag({t})
RemoveTask(T, t) == T (-) SetToBag({t})
TaskSet == BagToSet(tasks)
HasRoom == BagCardinality(tasks) < MaxTasks

Ids(registrations) == {r.id : r \in registrations}
HasFreeId(registrations) == HandleIds \ Ids(registrations) # {}
FreshId(registrations) ==
    CHOOSE i \in HandleIds \ Ids(registrations) :
        \A j \in HandleIds \ Ids(registrations) : i <= j

\* a switch whose TIMEOUT case falls into the message of POSITION_UNAVAILABLE
OneShotMessageFallsThrough(cause) ==
    CASE cause = "PERMISSION_DENIED" -> BlockedMsg
      [] cause = "POSITION_UNAVAILABLE" -> UnavailableMsg
      [] cause = "TIMEOUT" -> UnavailableMsg

\* the message getCurrentPosition rejects with, by error code
OneShotMessage(cause) ==
    CASE cause = "PERMISSION_DENIED" -> BlockedMsg
      [] cause = "POSITION_UNAVAILABLE" -> UnavailableMsg
      [] cause = "TIMEOUT" -> RequestTimeoutMsg

\* the message the watchPosition error callback selects, by error code
WatchMessage(cause) ==
    CASE cause = "PERMISSION_DENIED" -> RevokedMsg
      [] cause = "POSITION_UNAVAILABLE" -> SignalLostMsg
      [] cause = "TIMEOUT" -> WatchTimeoutMsg

\* positions the sensor can deliver now: none while permission is denied
SensorPositions == IF permState = "denied" THEN {} ELSE Positions

\* error codes the sensor can report now: the permission error exactly while
\* permission is denied
SensorCauses ==
    IF permState = "denied" THEN {"PERMISSION_DENIED"}
    ELSE Causes \ {"PERMISSION_DENIED"}

\* what the promise of getCurrentPosition can settle to in the current state:
\* a rejection when the sensor is absent, else a position or a rejection with
\* the message of the error code
GetCurrentPositionOutcomes ==
    IF ~geoSupported
    THEN {[ok |-> FALSE, pos |-> << >>, msg |-> UnsupportedMsg]}
    ELSE {[ok |-> TRUE, pos |-> <<p>>, msg |-> NoError] : p \in SensorPositions}
         \cup
         {[ok |-> FALSE, pos |-> << >>, msg |-> OneShotMessage(c)] : c \in SensorCauses}

\* ------------------------------------------------------------------- Init
\* the realtime effect: no channel without a driverId or for 'all', else the
\* channel filtered on the driver's row
HasChannel(subject) == subject # "" /\ subject # "all"
ChannelEffect(subject) == IF HasChannel(subject) THEN {subject} ELSE {}

\* the cleanup the realtime effect returned for subject: removeChannel, when
\* the effect had subscribed one
ChannelCleanup(subject) ==
    IF HasChannel(subject) THEN channels \ {subject} ELSE channels

\* DriverLocationTracker after its mount effect ran checkPermission up to the
\* await: 'denied' without a sensor, 'prompt' without the Permissions API,
\* else null with the query pending and no change listener yet
TrackerInit ==
    /\ permissionStatus = IF ~geoSupported THEN "denied"
                          ELSE IF ~hasPermissionsApi THEN "prompt"
                          ELSE NoStatus
    /\ hasPermission = FALSE
    /\ permissionListener = FALSE

\* LiveMapView at mount: useRealtimeTracking has no rows yet, the filter is
\* 'all', the map is not loaded and both bookkeeping maps are empty
MapInit ==
    /\ trackingData = {}
    /\ selectedDriver = "all"
    /\ mapLoaded = FALSE
    /\ mapMarkers = {}
    /\ markersRef = {}
    /\ mapPolylines = {}
    /\ polylinesRef = {}
    /\ routeRequests = EmptyBag

Init ==
    /\ driverId \in Subjects
    /\ mounted = TRUE
    /\ geoSupported \in BOOLEAN
    /\ hasPermissionsApi \in BOOLEAN
    /\ permState \in PermissionStates
    /\ currentLocation = NoLocation
    /\ isTracking = FALSE
    /\ error = NoError
    /\ watchIdRef = NoHandle
    /\ intervalRef = NoHandle
    /\ watches = {}
    /\ intervals = {}
    /\ tasks = EmptyBag
    /\ deactivated = FALSE
    /\ channels = ChannelEffect(driverId)
    /\ echoes = {}
    /\ TrackerInit
    /\ MapInit

\* ------------------------------------------------- updateDriverLocation
\* if (!driverId) return: only a truthy driverId reaches the supabase update
UpdateDriverLocationWrites(subject) == subject # ""

\* a catch that, like the catch of startTracking, also ends the session
SinkFailureEndsSession ==
    /\ error' = UpdateFailedMsg
    /\ isTracking' = FALSE
    /\ UNCHANGED <<watchIdRef, intervalRef, watches, intervals>>

\* the catch of updateDriverLocation: a failed update only sets the error
SinkFailureHandler ==
    /\ error' = UpdateFailedMsg
    /\ UNCHANGED <<isTracking, watchIdRef, intervalRef, watches, intervals>>

\* completion of the supabase update awaited by an interval tick, or started
\* by a watch callback or by updateLocation (nothing follows their await)
UpdateDriverLocationResolve(t, outcome) ==
    /\ t \in TaskSet
    /\ t.kind \in {"poll", "write", "manual"}
    /\ t.pc \in {"sink", "landed"}
    /\ tasks' = RemoveTask(tasks, t)
    /\ IF outcome = "error"
       THEN SinkFailureHandler
       ELSE UNCHANGED <<error, isTracking, watchIdRef, intervalRef, watches, intervals>>
    /\ UNCHANGED <<driverId, mounted, geoSupported, hasPermissionsApi, permState,
                   currentLocation, deactivated>>
    /\ UNCHANGED <<feedVars, trackerVars, mapVars>>

\* ---------------------------------------------------------- startTracking
\* the outer catch of startTracking
StartFailed(msg) ==
    /\ error' = msg
    /\ isTracking' = FALSE

\* a head of startTracking without the navigator.geolocation test
StartTrackingUnchecked ==
    /\ mounted
    /\ deactivated' = FALSE
    /\ HasRoom
    /\ error' = NoError
    /\ isTracking' = isTracking
    /\ tasks' = AddTask(tasks,
         IF hasPermissionsApi
         THEN Task("start", "perm", driverId, FALSE, << >>)
         ELSE Task("start", "pos", driverId, FALSE, << >>))
    /\ UNCHANGED <<driverId, mounted, geoSupported, hasPermissionsApi, permState,
                   currentLocation, watchIdRef, intervalRef, watches, intervals>>
    /\ UNCHANGED <<feedVars, trackerVars, mapVars>>

\* a head of startTracking without its setError(null)
StartTrackingKeepsError ==
    /\ mounted
    /\ deactivated' = FALSE
    /\ IF ~geoSupported
       THEN /\ StartFailed(UnsupportedMsg)
            /\ tasks' = tasks
       ELSE /\ HasRoom
            /\ error' = error
            /\ isTracking' = isTracking
            /\ tasks' = AddTask(tasks,
                 IF hasPermissionsApi
                 THEN Task("start", "perm", driverId, FALSE, << >>)
                 ELSE Task("start", "pos", driverId, FALSE, << >>))
    /\ UNCHANGED <<driverId, mounted, geoSupported, hasPermissionsApi, permState,
                   currentLocation, watchIdRef, intervalRef, watches, intervals>>
    /\ UNCHANGED <<feedVars, trackerVars, mapVars>>

\* the synchronous head of startTracking, up to its first await
StartTracking ==
    /\ mounted
    /\ deactivated' = FALSE
    /\ IF ~geoSupported
       THEN /\ StartFailed(UnsupportedMsg)
            /\ tasks' = tasks
       ELSE /\ HasRoom
            /\ error' = NoError
            /\ isTracking' = isTracking
            /\ tasks' = AddTask(tasks,
                 IF hasPermissionsApi
                 THEN Task("start", "perm", driverId, FALSE, << >>)
                 ELSE Task("start", "pos", driverId, FALSE, << >>))
    /\ UNCHANGED <<driverId, mounted, geoSupported, hasPermissionsApi, permState,
                   currentLocation, watchIdRef, intervalRef, watches, intervals>>
    /\ UNCHANGED <<feedVars, trackerVars, mapVars>>

\* does the permission block (if 'permissions' in navigator ...) end the call?
\* The throw for a denied state sits inside the try whose own catch only
\* warns, so no answer of the query propagates to the outer catch.
PermissionCheckAborts(answer) == FALSE

\* startTracking resumes after await navigator.permissions.query: the query
\* resolved with the current state, or rejected
StartPermissionResolve(t, answer) ==
    /\ t \in TaskSet
    /\ t.kind = "start"
    /\ t.pc = "perm"
    /\ answer \in {permState, "rejected"}
    /\ IF PermissionCheckAborts(answer)
       THEN /\ StartFailed(BlockedMsg)
            /\ tasks' = RemoveTask(tasks, t)
       ELSE /\ tasks' = AddTask(RemoveTask(tasks, t),
                                [t EXCEPT !.pc = "pos", !.denied = (answer = "denied")])
            /\ UNCHANGED <<error, isTracking>>
    /\ UNCHANGED <<driverId, mounted, geoSupported, hasPermissionsApi, permState,
                   currentLocation, watchIdRef, intervalRef, watches, intervals,
                   deactivated>>
    /\ UNCHANGED <<feedVars, trackerVars, mapVars>>

\* a registration that drops the timer handle setInterval returns
RegisterProducersLosesTimer(subject) ==
    /\ HasFreeId(watches)
    /\ HasFreeId(intervals)
    /\ watchIdRef' = FreshId(watches)
    /\ watches' = watches \cup {[id |-> FreshId(watches), subject |-> subject]}
    /\ intervalRef' = intervalRef
    /\ intervals' = intervals \cup {[id |-> FreshId(intervals), subject |-> subject]}
    /\ isTracking' = TRUE

\* watchPosition, setInterval and setIsTracking(true): one synchronous run,
\* the callbacks closing over the driverId of the startTracking call
RegisterProducers(subject) ==
    /\ HasFreeId(watches)
    /\ HasFreeId(intervals)
    /\ watchIdRef' = FreshId(watches)
    /\ watches' = watches \cup {[id |-> FreshId(watches), subject |-> subject]}
    /\ intervalRef' = FreshId(intervals)
    /\ intervals' = intervals \cup {[id |-> FreshId(intervals), subject |-> subject]}
    /\ isTracking' = TRUE

\* startTracking resumes after await getCurrentPosition()
StartPositionResolve(t, o) ==
    /\ t \in TaskSet
    /\ t.kind = "start"
    /\ t.pc = "pos"
    /\ o \in GetCurrentPositionOutcomes
    /\ IF o.ok
       THEN /\ currentLocation' = <<LocationData(o.pos[1])>>
            /\ IF UpdateDriverLocationWrites(t.subject)
               THEN /\ tasks' = AddTask(RemoveTask(tasks, t),
                         [t EXCEPT !.pc = "sink",
                                   !.write = <<o.pos[1].latitude, o.pos[1].longitude>>])
                    /\ UNCHANGED <<error, isTracking, watchIdRef, intervalRef,
                                   watches, intervals>>
               ELSE /\ tasks' = RemoveTask(tasks, t)
                    /\ RegisterProducers(t.subject)
                    /\ UNCHANGED error
       ELSE /\ StartFailed(o.msg)
            /\ tasks' = RemoveTask(tasks, t)
            /\ UNCHANGED <<currentLocation, watchIdRef, intervalRef, watches, intervals>>
    /\ UNCHANGED <<driverId, mounted, geoSupported, hasPermissionsApi, permState,
                   deactivated>>
    /\ UNCHANGED <<feedVars, trackerVars, mapVars>>

\* a startTracking that treats a failed first write as a failed activation
StartSinkResolveAborts(t, outcome) ==
    /\ t \in TaskSet
    /\ t.kind = "start"
    /\ t.pc = "sink"
    /\ tasks' = RemoveTask(tasks, t)
    /\ IF outcome = "error"
       THEN /\ StartFailed(UpdateFailedMsg)
            /\ UNCHANGED <<watchIdRef, intervalRef, watches, intervals>>
       ELSE /\ UNCHANGED error
            /\ RegisterProducers(t.subject)
    /\ UNCHANGED <<driverId, mounted, geoSupported, hasPermissionsApi, permState,
                   currentLocation, deactivated>>
    /\ UNCHANGED <<feedVars, trackerVars, mapVars>>

\* startTracking resumes after await updateDriverLocation(...) of the first fix
StartSinkResolve(t, outcome) ==
    /\ t \in TaskSet
    /\ t.kind = "start"
    /\ t.pc \in {"sink", "landed"}
    /\ tasks' = RemoveTask(tasks, t)
    /\ error' = IF outcome = "error" THEN UpdateFailedMsg ELSE error
    /\ RegisterProducers(t.subject)
    /\ UNCHANGED <<driverId, mounted, geoSupported, hasPermissionsApi, permState,
                   currentLocation, deactivated>>
    /\ UNCHANGED <<feedVars, trackerVars, mapVars>>

\* ------------------------------------------------- steady-state callbacks
\* the watchPosition success callback of registration w
WatchFix(w, p) ==
    /\ w \in watches
    /\ p \in SensorPositions
    /\ currentLocation' = <<LocationData(p)>>
    /\ IF UpdateDriverLocationWrites(w.subject)
       THEN /\ HasRoom
            /\ tasks' = AddTask(tasks,
                 Task("write", "sink", w.subject, FALSE, <<p.latitude, p.longitude>>))
       ELSE tasks' = tasks
    /\ UNCHANGED <<driverId, mounted, geoSupported, hasPermissionsApi, permState,
                   isTracking, error, watchIdRef, intervalRef, watches, intervals,
                   deactivated>>
    /\ UNCHANGED <<feedVars, trackerVars, mapVars>>

\* an error callback that also cancels the poll timer
WatchErrorCancelsPoll(w, cause) ==
    /\ w \in watches
    /\ cause \in SensorCauses
    /\ error' = WatchMessage(cause)
    /\ isTracking' = FALSE
    /\ intervals' = {i \in intervals : i.id # intervalRef}
    /\ intervalRef' = NoHandle
    /\ UNCHANGED <<driverId, mounted, geoSupported, hasPermissionsApi, permState,
                   currentLocation, watchIdRef, watches, tasks, deactivated>>
    /\ UNCHANGED <<feedVars, trackerVars, mapVars>>

\* the watchPosition error callback of registration w
WatchError(w, cause) ==
    /\ w \in watches
    /\ cause \in SensorCauses
    /\ error' = WatchMessage(cause)
    /\ isTracking' = FALSE
    /\ UNCHANGED <<driverId, mounted, geoSupported, hasPermissionsApi, permState,
                   currentLocation, watchIdRef, intervalRef, watches, intervals,
                   tasks, deactivated>>
    /\ UNCHANGED <<feedVars, trackerVars, mapVars>>

\* the interval callback of timer i starts: it calls getCurrentPosition
IntervalTick(i) ==
    /\ i \in intervals
    /\ HasRoom
    /\ tasks' = AddTask(tasks, Task("poll", "pos", i.subject, FALSE, << >>))
    /\ UNCHANGED <<driverId, mounted, geoSupported, hasPermissionsApi, permState,
                   currentLocation, isTracking, error, watchIdRef, intervalRef,
                   watches, intervals, deactivated>>
    /\ UNCHANGED <<feedVars, trackerVars, mapVars>>

\* an interval callback without its try/catch: a rejected getCurrentPosition
\* leaves the call as an unhandled rejection
PollPositionResolveUncaught(t, o) ==
    /\ t \in TaskSet
    /\ t.kind = "poll"
    /\ t.pc = "pos"
    /\ o \in GetCurrentPositionOutcomes
    /\ IF o.ok
       THEN /\ currentLocation' = <<LocationData(o.pos[1])>>
            /\ tasks' = IF UpdateDriverLocationWrites(t.subject)
                        THEN AddTask(RemoveTask(tasks, t),
                               [t EXCEPT !.pc = "sink",
                                  !.write = <<o.pos[1].latitude, o.pos[1].longitude>>])
                        ELSE RemoveTask(tasks, t)
       ELSE /\ tasks' = AddTask(RemoveTask(tasks, t), [t EXCEPT !.pc = "threw"])
            /\ UNCHANGED currentLocation
    /\ UNCHANGED <<driverId, mounted, geoSupported, hasPermissionsApi, permState,
                   isTracking, error, watchIdRef, intervalRef, watches, intervals,
                   deactivated>>
    /\ UNCHANGED <<feedVars, trackerVars, mapVars>>

\* the interval callback resumes after await getCurrentPosition()
PollPositionResolve(t, o) ==
    /\ t \in TaskSet
    /\ t.kind = "poll"
    /\ t.pc = "pos"
    /\ o \in GetCurrentPositionOutcomes
    /\ IF o.ok
       THEN /\ currentLocation' = <<LocationData(o.pos[1])>>
            /\ tasks' = IF UpdateDriverLocationWrites(t.subject)
                        THEN AddTask(RemoveTask(tasks, t),
                               [t EXCEPT !.pc = "sink",
                                  !.write = <<o.pos[1].latitude, o.pos[1].longitude>>])
                        ELSE RemoveTask(tasks, t)
       ELSE /\ tasks' = RemoveTask(tasks, t)
            /\ UNCHANGED currentLocation
    /\ UNCHANGED <<driverId, mounted, geoSupported, hasPermissionsApi, permState,
                   isTracking, error, watchIdRef, intervalRef, watches, intervals,
                   deactivated>>
    /\ UNCHANGED <<feedVars, trackerVars, mapVars>>

\* ----------------------------------------------------------- stopTracking
\* a stopTracking without its setError(null)
StopTrackingKeepsError ==
    /\ watches' = {w \in watches : w.id # watchIdRef}
    /\ watchIdRef' = NoHandle
    /\ intervals' = {i \in intervals : i.id # intervalRef}
    /\ intervalRef' = NoHandle
    /\ isTracking' = FALSE
    /\ error' = error
    /\ deactivated' = TRUE

\* a stopTracking that nulls watchIdRef without calling clearWatch
StopTrackingLeaksWatch ==
    /\ watches' = watches
    /\ watchIdRef' = NoHandle
    /\ intervals' = {i \in intervals : i.id # intervalRef}
    /\ intervalRef' = NoHandle
    /\ isTracking' = FALSE
    /\ error' = NoError
    /\ deactivated' = TRUE

\* a stopTracking that releases the handles and leaves the flag alone
StopTrackingKeepsFlag ==
    /\ watches' = {w \in watches : w.id # watchIdRef}
    /\ watchIdRef' = NoHandle
    /\ intervals' = {i \in intervals : i.id # intervalRef}
    /\ intervalRef' = NoHandle
    /\ isTracking' = isTracking
    /\ error' = NoError
    /\ deactivated' = TRUE

\* the body of stopTracking
StopTrackingBody ==
    /\ watches' = {w \in watches : w.id # watchIdRef}
    /\ watchIdRef' = NoHandle
    /\ intervals' = {i \in intervals : i.id # intervalRef}
    /\ intervalRef' = NoHandle
    /\ isTracking' = FALSE
    /\ error' = NoError
    /\ deactivated' = TRUE

\* stopTracking called through the hook's return value
StopTracking ==
    /\ mounted
    /\ StopTrackingBody
    /\ UNCHANGED <<driverId, mounted, geoSupported, hasPermissionsApi, permState,
                   currentLocation, tasks>>
    /\ UNCHANGED <<feedVars, trackerVars, mapVars>>

\* the owner unmounts: the cleanup effect runs stopTracking
Unmount ==
    /\ mounted
    /\ mounted' = FALSE
    /\ StopTrackingBody
    /\ channels' = ChannelCleanup(driverId)
    /\ echoes' = {n \in echoes : n.subject \in channels'}
    /\ UNCHANGED <<driverId, geoSupported, hasPermissionsApi, permState,
                   currentLocation, tasks>>
    /\ UNCHANGED <<trackerVars, mapVars>>

\* --------------------------------------------------------- updateLocation
\* an updateLocation that hands (lng, lat) to updateDriverLocation
UpdateLocationSwapped(lat, lng, now) ==
    /\ mounted
    /\ currentLocation' = <<[lat |-> lat, lng |-> lng, timestamp |-> now]>>
    /\ IF UpdateDriverLocationWrites(driverId)
       THEN /\ HasRoom
            /\ tasks' = AddTask(tasks,
                 Task("manual", "sink", driverId, FALSE, <<lng, lat>>))
       ELSE tasks' = tasks
    /\ UNCHANGED <<driverId, mounted, geoSupported, hasPermissionsApi, permState,
                   isTracking, error, watchIdRef, intervalRef, watches, intervals,
                   deactivated>>
    /\ UNCHANGED <<feedVars, trackerVars, mapVars>>

\* updateLocation: the fix is stamped Date.now() and handed to both consumers
UpdateLocation(lat, lng, now) ==
    /\ mounted
    /\ currentLocation' = <<[lat |-> lat, lng |-> lng, timestamp |-> now]>>
    /\ IF UpdateDriverLocationWrites(driverId)
       THEN /\ HasRoom
            /\ tasks' = AddTask(tasks,
                 Task("manual", "sink", driverId, FALSE, <<lat, lng>>))
       ELSE tasks' = tasks
    /\ UNCHANGED <<driverId, mounted, geoSupported, hasPermissionsApi, permState,
                   isTracking, error, watchIdRef, intervalRef, watches, intervals,
                   deactivated>>
    /\ UNCHANGED <<feedVars, trackerVars, mapVars>>

\* ------------------------------------------------------------ environment
\* a re-render whose realtime effect runs without the cleanup of the last one
SetDriverIdKeepsChannel(s) ==
    /\ mounted
    /\ s \in Subjects \ {driverId}
    /\ driverId' = s
    /\ channels' = channels \cup ChannelEffect(s)
    /\ echoes' = {n \in echoes : n.subject \in channels'}
    /\ UNCHANGED <<mounted, geoSupported, hasPermissionsApi, permState,
                   currentLocation, isTracking, error, watchIdRef, intervalRef,
                   watches, intervals, tasks, deactivated>>
    /\ UNCHANGED <<trackerVars, mapVars>>

\* the owner re-renders the hook with another driverId: the realtime effect
\* is cleaned up and runs again; stopTracking is not run (its identity never
\* changes), so registered callbacks keep the driverId of their closure
SetDriverId(s) ==
    /\ mounted
    /\ s \in Subjects \ {driverId}
    /\ driverId' = s
    /\ channels' = ChannelCleanup(driverId) \cup ChannelEffect(s)
    /\ echoes' = {n \in echoes : n.subject \in channels'}
    /\ UNCHANGED <<mounted, geoSupported, hasPermissionsApi, permState,
                   currentLocation, isTracking, error, watchIdRef, intervalRef,
                   watches, intervals, tasks, deactivated>>
    /\ UNCHANGED <<trackerVars, mapVars>>

\* the user changes the site's geolocation permission
PermissionChange(s) ==
    /\ s \in PermissionStates \ {permState}
    /\ permState' = s
    /\ UNCHANGED <<driverId, mounted, geoSupported, hasPermissionsApi,
                   currentLocation, isTracking, error, watchIdRef, intervalRef,
                   watches, intervals, tasks, deactivated>>
    /\ UNCHANGED <<feedVars, trackerVars, mapVars>>

\* ------------------------------------------------------------------- Next
Next ==
    \/ StartTracking
    \/ \E t \in TaskSet, a \in PermissionStates \cup {"rejected"} :
           StartPermissionResolve(t, a)
    \/ \E t \in TaskSet, o \in GetCurrentPositionOutcomes : StartPositionResolve(t, o)
    \/ \E t \in TaskSet, r \in SinkOutcomes : StartSinkResolve(t, r)
    \/ \E w \in watches, p \in Positions : WatchFix(w, p)
    \/ \E w \in watches, c \in Causes : WatchError(w, c)
    \/ \E i \in intervals : IntervalTick(i)
    \/ \E t \in TaskSet, o \in GetCurrentPositionOutcomes : PollPositionResolve(t, o)
    \/ \E t \in TaskSet, r \in SinkOutcomes : UpdateDriverLocationResolve(t, r)
    \/ StopTracking
    \/ Unmount
    \/ \E s \in PermissionStates : PermissionChange(s)

Spec == Init /\ [][Next]_vars

\* the same with the operator's manual fixes
NextManual ==
    \/ Next
    \/ \E m \in ManualFixes : UpdateLocation(m.lat, m.lng, m.timestamp)

SpecManual == Init /\ [][NextManual]_vars

\* the same with re-renders under another driverId
NextRerender ==
    \/ Next
    \/ \E s \in Subjects : SetDriverId(s)

SpecRerender == Init /\ [][NextRerender]_vars

\* ---------------------------------------------------------- realtime feed
\* the supabase update of call t reaches the drivers row: postgres sends an
\* UPDATE notification to the channel filtered on that row, if subscribed;
\* the response of the update is still on its way to the hook
RowUpdated(t) ==
    /\ t \in TaskSet
    /\ t.pc = "sink"
    /\ tasks' = AddTask(RemoveTask(tasks, t), [t EXCEPT !.pc = "landed"])
    /\ echoes' = IF t.subject \in channels
                 THEN echoes \cup {[subject |-> t.subject, write |-> t.write]}
                 ELSE echoes
    /\ UNCHANGED <<driverId, mounted, geoSupported, hasPermissionsApi, permState,
                   currentLocation, isTracking, error, watchIdRef, intervalRef,
                   watches, intervals, deactivated, channels>>
    /\ UNCHANGED <<trackerVars, mapVars>>

\* the postgres_changes callback of the channel receives notification n: a
\* row with both coordinates truthy replaces the current fix, stamped with
\* the row's last_location_update
RealtimeNotify(n, at) ==
    /\ n \in echoes
    /\ n.subject \in channels
    /\ at \in WriteTimes
    /\ echoes' = echoes \ {n}
    /\ currentLocation' =
           IF n.write[1] # 0 /\ n.write[2] # 0
           THEN <<[lat |-> n.write[1], lng |-> n.write[2], timestamp |-> at]>>
           ELSE currentLocation
    /\ UNCHANGED <<driverId, mounted, geoSupported, hasPermissionsApi, permState,
                   isTracking, error, watchIdRef, intervalRef, watches, intervals,
                   tasks, deactivated, channels>>
    /\ UNCHANGED <<trackerVars, mapVars>>

\* the hook with its realtime channel delivering the rows it wrote
NextFeed ==
    \/ Next
    \/ \E t \in TaskSet : RowUpdated(t)
    \/ \E n \in echoes, at \in WriteTimes : RealtimeNotify(n, at)

SpecFeed == Init /\ [][NextFeed]_vars

\* --------------------------------------------------- DriverLocationTracker
\* permission.state as the component reads it: the model's "granted" stands
\* for every state but 'denied'
TrackerReadings == IF permState = "denied" THEN {"denied"} ELSE {"granted", "prompt"}

\* checkPermission resumes after await navigator.permissions.query: it stores
\* the state and attaches the change listener, or (query rejected) stores
\* 'denied' in its catch
TrackerPermissionResolve(answer) ==
    /\ mounted
    /\ geoSupported /\ hasPermissionsApi
    /\ permissionStatus = NoStatus
    /\ answer \in TrackerReadings \cup {"rejected"}
    /\ IF answer = "rejected"
       THEN /\ permissionStatus' = "denied"
            /\ hasPermission' = FALSE
            /\ permissionListener' = FALSE
       ELSE /\ permissionStatus' = answer
            /\ hasPermission' = (answer = "granted")
            /\ permissionListener' = TRUE
    /\ UNCHANGED <<driverId, mounted, geoSupported, hasPermissionsApi, permState,
                   currentLocation, isTracking, error, watchIdRef, intervalRef,
                   watches, intervals, tasks, deactivated>>
    /\ UNCHANGED <<feedVars, mapVars>>

\* the 'change' listener of the permission status runs
TrackerPermissionEvent(reading) ==
    /\ mounted
    /\ permissionListener
    /\ reading \in TrackerReadings
    /\ <<reading, reading = "granted">> # <<permissionStatus, hasPermission>>
    /\ permissionStatus' = reading
    /\ hasPermission' = (reading = "granted")
    /\ UNCHANGED <<driverId, mounted, geoSupported, hasPermissionsApi, permState,
                   currentLocation, isTracking, error, watchIdRef, intervalRef,
                   watches, intervals, tasks, deactivated, permissionListener>>
    /\ UNCHANGED <<feedVars, mapVars>>

\* handlePermissionChange, called by the effect of LocationPermissionManager
\* with (its own permissionStatus === 'granted'); the manager is rendered
\* while the tracker's permissionStatus is not 'granted'
HandlePermissionChange(granted) ==
    /\ mounted
    /\ permissionStatus # "granted"
    /\ granted \in BOOLEAN
    /\ hasPermission' = granted
    /\ hasPermission' # hasPermission
    /\ UNCHANGED <<driverId, mounted, geoSupported, hasPermissionsApi, permState,
                   currentLocation, isTracking, error, watchIdRef, intervalRef,
                   watches, intervals, tasks, deactivated, permissionStatus,
                   permissionListener>>
    /\ UNCHANGED <<feedVars, mapVars>>

\* const canTrack = driverId && driverId !== 'all'
CanTrack(subject) == subject # "" /\ subject # "all"

\* a Start button whose disabled test forgets permissionStatus
StartControlIgnoresStatus ==
    /\ CanTrack(driverId)
    /\ ~isTracking
    /\ ~(~hasPermission)

\* the Start button is rendered (canTrack && !isTracking) and not disabled
\* (disabled = !hasPermission || permissionStatus === 'denied')
StartControlEnabled ==
    /\ CanTrack(driverId)
    /\ ~isTracking
    /\ ~(~hasPermission \/ permissionStatus = "denied")

\* the Stop button is rendered (canTrack && isTracking)
StopControlEnabled == CanTrack(driverId) /\ isTracking

\* a click on Start: handleStartTracking awaits startTracking
ClickStart == StartControlEnabled /\ StartTracking

\* a click on Stop: handleStopTracking calls stopTracking
ClickStop == StopControlEnabled /\ StopTracking

\* the hook driven through the buttons of DriverLocationTracker
NextTracker ==
    \/ ClickStart
    \/ ClickStop
    \/ \E a \in TrackerStatuses \cup {"rejected"} : TrackerPermissionResolve(a)
    \/ \E r \in TrackerStatuses : TrackerPermissionEvent(r)
    \/ \E g \in BOOLEAN : HandlePermissionChange(g)
    \/ \E t \in TaskSet, a \in PermissionStates \cup {"rejected"} :
           StartPermissionResolve(t, a)
    \/ \E t \in TaskSet, o \in GetCurrentPositionOutcomes : StartPositionResolve(t, o)
    \/ \E t \in TaskSet, r \in SinkOutcomes : StartSinkResolve(t, r)
    \/ \E w \in watches, p \in Positions : WatchFix(w, p)
    \/ \E w \in watches, c \in Causes : WatchError(w, c)
    \/ \E i \in intervals : IntervalTick(i)
    \/ \E t \in TaskSet, o \in GetCurrentPositionOutcomes : PollPositionResolve(t, o)
    \/ \E t \in TaskSet, r \in SinkOutcomes : UpdateDriverLocationResolve(t, r)
    \/ Unmount
    \/ \E s \in PermissionStates : PermissionChange(s)

SpecTracker == Init /\ [][NextTracker]_vars

\* ------------------------------------------------------------- LiveMapView
\* drivers of the tracking data, and the booking a driver's row may carry
MapDrivers == {"m1", "m2"}
BookingId(d) == IF d = "m1" THEN "b1" ELSE "b2"

\* a row's booking: none, one with pickup and dropoff coordinates, or one
\* with pickup coordinates only
BookingShapes(d) ==
    {<< >>,
     <<[id |-> BookingId(d), pickup |-> TRUE, dropoff |-> TRUE]>>,
     <<[id |-> BookingId(d), pickup |-> TRUE, dropoff |-> FALSE]>>}

\* TrackingData rows: located says the driver has both coordinates
Rows ==
    UNION {{[driver |-> d, located |-> l, booking |-> b] :
               l \in BOOLEAN, b \in BookingShapes(d)} : d \in MapDrivers}

\* values of trackingData: at most one row per driver
Datasets ==
    {D \in SUBSET Rows : \A r1, r2 \in D : r1.driver = r2.driver => r1 = r2}

\* values of the driver filter
Filters == {"all"} \cup MapDrivers

\* filteredData of updateMapMarkers
FilteredData(D, sel) == IF sel = "all" THEN D ELSE {r \in D : r.driver = sel}

\* the keys under which updateMapMarkers stores the markers of one row
MarkerKeys(r) ==
    (IF r.located THEN {[kind |-> "driver", id |-> r.driver]} ELSE {})
    \cup
    (IF r.booking # << >> /\ r.booking[1].pickup
     THEN {[kind |-> "pickup", id |-> r.booking[1].id]} ELSE {})
    \cup
    (IF r.booking # << >> /\ r.booking[1].dropoff
     THEN {[kind |-> "dropoff", id |-> r.booking[1].id]} ELSE {})

\* bookings of F for which updateMapMarkers asks the directions service
RoutedBookings(F) ==
    {r.booking[1].id : r \in {x \in F : /\ x.booking # << >>
                                         /\ x.booking[1].pickup
                                         /\ x.booking[1].dropoff}}

PolylineIds == 1..MaxPolylines
FreshPolyline ==
    CHOOSE i \in PolylineIds \ Ids(mapPolylines \cup polylinesRef) :
        \A j \in PolylineIds \ Ids(mapPolylines \cup polylinesRef) : i <= j

\* the body of updateMapMarkers past its guard: detach and forget what the
\* two bookkeeping maps hold, attach and record the markers of the filtered
\* rows, request a route per booking with both ends
UpdateMapMarkers(D, sel) ==
    LET F == FilteredData(D, sel)
        fresh == UNION {MarkerKeys(r) : r \in F}
    IN /\ BagCardinality(routeRequests) + Cardinality(RoutedBookings(F)) <= MaxRequests
       /\ mapMarkers' = (mapMarkers \ markersRef) \cup fresh
       /\ markersRef' = fresh
       /\ mapPolylines' = mapPolylines \ polylinesRef
       /\ polylinesRef' = {}
       /\ routeRequests' = routeRequests (+) SetToBag(RoutedBookings(F))

\* the marker effect after a render with data D, filter sel and mapLoaded
\* loaded: if (mapLoaded && trackingData.length > 0) updateMapMarkers()
MarkerEffect(D, sel, loaded) ==
    IF loaded /\ D # {}
    THEN UpdateMapMarkers(D, sel)
    ELSE UNCHANGED <<mapMarkers, markersRef, mapPolylines, polylinesRef, routeRequests>>

\* initializeMap completes: setMapLoaded(true), and the render it causes
\* runs the marker effect
MapLoaded ==
    /\ ~mapLoaded
    /\ mapLoaded' = TRUE
    /\ MarkerEffect(trackingData, selectedDriver, TRUE)
    /\ UNCHANGED <<trackingData, selectedDriver>>
    /\ UNCHANGED <<hookVars, feedVars, trackerVars>>

\* useRealtimeTracking delivers other rows: render, then the marker effect
SetTrackingData(D) ==
    /\ D \in Datasets \ {trackingData}
    /\ trackingData' = D
    /\ MarkerEffect(D, selectedDriver, mapLoaded)
    /\ UNCHANGED <<selectedDriver, mapLoaded>>
    /\ UNCHANGED <<hookVars, feedVars, trackerVars>>

\* the driver filter changes: updateMapMarkers gets a new identity, so the
\* marker effect runs
SelectDriver(sel) ==
    /\ sel \in Filters \ {selectedDriver}
    /\ selectedDriver' = sel
    /\ MarkerEffect(trackingData, sel, mapLoaded)
    /\ UNCHANGED <<trackingData, mapLoaded>>
    /\ UNCHANGED <<hookVars, feedVars, trackerVars>>

\* the callback of directionsService.route for booking b: on 'OK' a new
\* polyline is attached to the map and stored under route-b, replacing what
\* the bookkeeping map held under that key
DirectionsResponse(b, status) ==
    /\ b \in BagToSet(routeRequests)
    /\ routeRequests' = routeRequests (-) SetToBag({b})
    /\ IF status = "OK"
       THEN /\ PolylineIds \ Ids(mapPolylines \cup polylinesRef) # {}
            /\ mapPolylines' = mapPolylines \cup {[id |-> FreshPolyline, key |-> b]}
            /\ polylinesRef' = {q \in polylinesRef : q.key # b}
                                 \cup {[id |-> FreshPolyline, key |-> b]}
       ELSE UNCHANGED <<mapPolylines, polylinesRef>>
    /\ UNCHANGED <<trackingData, selectedDriver, mapLoaded, mapMarkers, markersRef>>
    /\ UNCHANGED <<hookVars, feedVars, trackerVars>>

\* LiveMapView uses no location hook: its part of the state stays as built
InitMap ==
    /\ Init
    /\ driverId = "all"
    /\ geoSupported
    /\ hasPermissionsApi
    /\ permState = "granted"

NextMap ==
    \/ MapLoaded
    \/ \E D \in Datasets : SetTrackingData(D)
    \/ \E sel \in Filters : SelectDriver(sel)
    \/ \E b \in {BookingId(d) : d \in MapDrivers}, status \in {"OK", "NOT_FOUND"} :
           DirectionsResponse(b, status)

SpecMap == InitMap /\ [][NextMap]_vars

\* =============================================================== properties
\* the (lat, lng) write updateDriverLocation starts for position p
WriteOf(p) == <<p.latitude, p.longitude>>

\* tasks holding a supabase update in flight for subject s with coordinates c
SinkWrites(T, s, c) ==
    {t \in BagToSet(T) : t.pc = "sink" /\ t.subject = s /\ t.write = c}
NumSinkWrites(T, s, c) ==
    LET W == SinkWrites(T, s, c)
        RECURSIVE Sum(_)
        Sum(S) == IF S = {} THEN 0
                  ELSE LET x == CHOOSE x \in S : TRUE
                       IN CopiesIn(x, T) + Sum(S \ {x})
    IN Sum(W)
AllSinkWrites(T) == {t \in BagToSet(T) : t.pc = "sink"}
NumAllSinkWrites(T) ==
    LET RECURSIVE Sum(_)
        Sum(S) == IF S = {} THEN 0
                  ELSE LET x == CHOOSE x \in S : TRUE
                       IN CopiesIn(x, T) + Sum(S \ {x})
    IN Sum(AllSinkWrites(T))

\* exactly one write, for subject s and the coordinates of p, starts in this step
OneWriteStarted(s, p) ==
    /\ NumSinkWrites(tasks', s, WriteOf(p)) = NumSinkWrites(tasks, s, WriteOf(p)) + 1
    /\ NumAllSinkWrites(tasks') = NumAllSinkWrites(tasks) + 1

\* a specific driver: neither no driverId nor the "all" sentinel
Specific(subject) == subject \notin {"", "all"}

BothHandlesHeld == watchIdRef # NoHandle /\ intervalRef # NoHandle
BothHandlesNull == watchIdRef = NoHandle /\ intervalRef = NoHandle

\* C1: an activation whose permission query answered 'denied' never goes on
\* to the sensor: no startTracking call that saw 'denied' is awaiting
\* getCurrentPosition or anything after it (it failed with the blocked
\* message instead).  Stated for a specific driver, where the sentinel
\* short-circuit of C2 plays no part.
C1_DeniedNeverReachesSensor ==
    \A t \in TaskSet :
        t.kind = "start" /\ t.denied /\ Specific(t.subject) => t.pc = "perm"

\* C2: for the subjects "" and "all" activation is a no-op: no one-shot
\* request, no subscription, no poll timer and no sink write exists for them.
C2_SentinelActivateIsNoOp ==
    /\ \A t \in TaskSet : t.subject \in {"", "all"} => t.pc \notin {"pos", "sink"}
    /\ \A r \in watches \cup intervals : r.subject \notin {"", "all"}

\* C3 (as claimed): the active flag is true exactly when both handles are
\* non-null, and both handles are null whenever it is false.  Stated for a
\* specific driver.
C3_ActiveIffHandles ==
    Specific(driverId) =>
        /\ isTracking => BothHandlesHeld
        /\ ~isTracking => BothHandlesNull

\* C3 (amended): whenever the active flag is true both handles are non-null
\* and name registered producers; an inactive session may still hold both.
C3_ActiveImpliesHandles ==
    isTracking =>
        /\ BothHandlesHeld
        /\ watchIdRef \in Ids(watches)
        /\ intervalRef \in Ids(intervals)

\* the session was marked inactive by a subscription error and still holds
\* both handles
C3_Witness ==
    /\ Specific(driverId)
    /\ ~isTracking
    /\ BothHandlesHeld
    /\ error \in {RevokedMsg, SignalLostMsg, WatchTimeoutMsg}

\* a startTracking call completes its registration in this step
ActivationCompletes ==
    \E t \in TaskSet :
        \/ \E o \in GetCurrentPositionOutcomes :
               o.ok /\ ~UpdateDriverLocationWrites(t.subject) /\ StartPositionResolve(t, o)
        \/ \E r \in SinkOutcomes : StartSinkResolve(t, r)

\* C4: the two handles are null together or non-null together in every
\* state; a completed activation leaves both non-null and stopTracking
\* (called or run by the cleanup) leaves both null.
C4_HandlesPaired ==
    /\ [](watchIdRef = NoHandle <=> intervalRef = NoHandle)
    /\ [][ActivationCompletes => BothHandlesHeld']_vars
    /\ [][StopTracking \/ Unmount => BothHandlesNull']_vars

\* a completed activation: the session is active and each handle names the
\* producer just registered
C4_Witness ==
    /\ isTracking
    /\ ~deactivated
    /\ watches = {[id |-> watchIdRef, subject |-> driverId]}
    /\ intervals = {[id |-> intervalRef, subject |-> driverId]}

\* C5: without the sensor capability the session is never active, holds no
\* handle, registers no producer and starts no sensor request or sink write;
\* every startTracking call ends at once with the unsupported message.
C5_UnsupportedNeverActivates ==
    /\ [](~geoSupported =>
            /\ ~isTracking
            /\ BothHandlesNull
            /\ watches = {} /\ intervals = {}
            /\ \A t \in TaskSet : t.kind = "manual")
    /\ [][~geoSupported /\ StartTracking =>
            error' = UnsupportedMsg /\ ~isTracking' /\ tasks' = tasks]_vars

\* startTracking has failed on a browser without geolocation
C5_Witness == ~geoSupported /\ error = UnsupportedMsg /\ ~isTracking

\* C6: every fix of the watch callback and of a successful poll one-shot
\* replaces the current fix and starts exactly one sink write with its
\* coordinates.
C6_EveryFixDispatchedOnce ==
    [][/\ \A w \in watches, p \in Positions :
            WatchFix(w, p) =>
                currentLocation' = <<LocationData(p)>> /\ OneWriteStarted(w.subject, p)
       /\ \A t \in TaskSet, p \in Positions :
            PollPositionResolve(t, [ok |-> TRUE, pos |-> <<p>>, msg |-> NoError]) =>
                currentLocation' = <<LocationData(p)>> /\ OneWriteStarted(t.subject, p)
      ]_vars

\* C7: a failed sink write of a poll or watch fix sets the error and leaves
\* the flag, both handles and both registrations as they were; and while
\* that error shows, every fix of a producer that writes to the sink still
\* replaces the current fix and starts its write.
C7_SinkFailureKeepsSession ==
    [][/\ \A t \in TaskSet :
            UpdateDriverLocationResolve(t, "error") =>
                /\ error' = UpdateFailedMsg
                /\ isTracking' = isTracking
                /\ UNCHANGED <<watchIdRef, intervalRef, watches, intervals>>
       /\ error = UpdateFailedMsg =>
            /\ \A w \in watches, p \in Positions :
                 WatchFix(w, p) /\ UpdateDriverLocationWrites(w.subject) =>
                     currentLocation' = <<LocationData(p)>>
                     /\ OneWriteStarted(w.subject, p)
            /\ \A t \in TaskSet, p \in Positions :
                 /\ PollPositionResolve(t, [ok |-> TRUE, pos |-> <<p>>, msg |-> NoError])
                 /\ UpdateDriverLocationWrites(t.subject)
                 => currentLocation' = <<LocationData(p)>>
                    /\ OneWriteStarted(t.subject, p)
      ]_vars

\* an active session showing a sink failure while a later watch fix is
\* being written
C7_Witness ==
    /\ error = UpdateFailedMsg
    /\ isTracking
    /\ watchIdRef \in Ids(watches)
    /\ intervalRef \in Ids(intervals)
    /\ \E t \in TaskSet : t.kind = "write"

\* C8: the error callback with PERMISSION_DENIED sets the revoked message
\* and clears the flag without touching the poll timer; a timer goes away
\* only in a step of stopTracking; and a registered timer can always tick
\* (room for its task given), whatever the flag and the error.
C8_RevocationLeavesPoll ==
    /\ [][/\ \A w \in watches :
               WatchError(w, "PERMISSION_DENIED") =>
                   /\ error' = RevokedMsg
                   /\ ~isTracking'
                   /\ UNCHANGED <<intervalRef, intervals>>
          /\ ~(intervals \subseteq intervals') => deactivated'
         ]_vars
    /\ [](\A i \in intervals : HasRoom => ENABLED IntervalTick(i))

\* after a revocation the session is inactive and its timer has ticked: a
\* poll is requesting a position
C8_Witness ==
    /\ error = RevokedMsg
    /\ ~isTracking
    /\ intervalRef \in Ids(intervals)
    /\ \E t \in TaskSet : t.kind = "poll" /\ t.pc = "pos"

\* a sensor fix is dispatched in this step
SensorDispatch ==
    \/ \E w \in watches, p \in Positions : WatchFix(w, p)
    \/ \E t \in TaskSet, o \in GetCurrentPositionOutcomes :
           o.ok /\ (PollPositionResolve(t, o) \/ StartPositionResolve(t, o))

\* C9: from the return of stopTracking to the next call of startTracking no
\* sensor fix is dispatched.  Stated for a specific driver.
C9_NoDispatchAfterDeactivate ==
    [][Specific(driverId) /\ deactivated /\ deactivated' => ~SensorDispatch]_vars

\* C10: after the owner is torn down no watch and no interval timer remains
\* registered.  Stated for a specific driver.
C10_TeardownReleasesAll ==
    Specific(driverId) /\ ~mounted => watches = {} /\ intervals = {}

\* C6 restricted to producers whose closure holds a driverId: what remains of
\* the claim once the empty subject is set aside
C6_DispatchedOnceWithDriver ==
    [][/\ \A w \in watches, p \in Positions :
            WatchFix(w, p) /\ UpdateDriverLocationWrites(w.subject) =>
                currentLocation' = <<LocationData(p)>> /\ OneWriteStarted(w.subject, p)
       /\ \A t \in TaskSet, p \in Positions :
            /\ PollPositionResolve(t, [ok |-> TRUE, pos |-> <<p>>, msg |-> NoError])
            /\ UpdateDriverLocationWrites(t.subject)
            => currentLocation' = <<LocationData(p)>> /\ OneWriteStarted(t.subject, p)
      ]_vars

\* ------------------------------------------------------------- C11 .. C20
\* the outcome of getCurrentPosition that delivers position p
Delivered(p) == [ok |-> TRUE, pos |-> <<p>>, msg |-> NoError]

\* C11 (as claimed): stopTracking on an inactive session changes neither the
\* flag, nor a handle, nor the current fix, nor the error.  Stated for a
\* specific driver.
C11_InactiveDeactivateChangesNothing ==
    [][Specific(driverId) /\ ~isTracking /\ StopTracking =>
           UNCHANGED <<isTracking, watchIdRef, intervalRef, currentLocation, error>>]_vars

\* C11 (amended): stopTracking on an inactive session leaves the flag false
\* and the current fix and the suspended calls alone, ends with both handles
\* null and the error cleared (it releases handles and an error the inactive
\* session still held), and run again right after itself it changes nothing.
C11_InactiveDeactivateIsSafe ==
    [][~isTracking /\ StopTracking =>
           /\ ~isTracking'
           /\ BothHandlesNull'
           /\ error' = NoError
           /\ UNCHANGED <<currentLocation, tasks, driverId, mounted>>
           /\ (BothHandlesNull /\ error = NoError =>
                 UNCHANGED <<isTracking, watchIdRef, intervalRef, watches, intervals,
                             currentLocation, error, tasks>>)
      ]_vars

\* stopTracking has run on a session that never delivered a fix, so was
\* never active
C11_Witness ==
    /\ deactivated
    /\ mounted
    /\ geoSupported
    /\ currentLocation = NoLocation
    /\ ~isTracking
    /\ error = NoError

\* C12: one step of stopTracking (called, or run by the cleanup) clears the
\* watch and the timer the refs name, nulls both refs, sets the flag false and
\* the error null, and touches nothing else of the session.
C12_DeactivateReleasesAll ==
    [][StopTracking \/ Unmount =>
           /\ watches' = {w \in watches : w.id # watchIdRef}
           /\ intervals' = {i \in intervals : i.id # intervalRef}
           /\ watchIdRef' = NoHandle
           /\ intervalRef' = NoHandle
           /\ ~isTracking'
           /\ error' = NoError
           /\ UNCHANGED <<currentLocation, tasks>>
      ]_vars

\* a session that had registered its producers (a fix arrived and no
\* startTracking call is pending) and was deactivated: nothing is registered
C12_Witness ==
    /\ deactivated
    /\ currentLocation # NoLocation
    /\ tasks = EmptyBag
    /\ watches = {} /\ intervals = {}
    /\ BothHandlesNull
    /\ ~isTracking
    /\ error = NoError

\* C13: a poll tick whose getCurrentPosition rejects records the failure in
\* the error state and leaves the timer running.  Stated for a specific
\* driver.
C13_PollFailureRecorded ==
    [][\A t \in TaskSet, o \in GetCurrentPositionOutcomes :
           Specific(t.subject) /\ ~o.ok /\ PollPositionResolve(t, o) =>
               error' = o.msg /\ UNCHANGED <<intervalRef, intervals>>]_vars

\* C14: the watch error callback sets the message of its cause; it clears
\* the flag for PERMISSION_DENIED and POSITION_UNAVAILABLE and leaves the flag
\* as it was for TIMEOUT.  Stated for a specific driver.
C14_TimeoutKeepsActive ==
    [][\A w \in watches, c \in Causes :
           Specific(w.subject) /\ WatchError(w, c) =>
               /\ error' = WatchMessage(c)
               /\ isTracking' = IF c = "TIMEOUT" THEN isTracking ELSE FALSE]_vars

C16_ManualUpdateAlwaysWrites ==
    [][\A m \in ManualFixes :
           ~isTracking /\ UpdateLocation(m.lat, m.lng, m.timestamp) =>
               /\ currentLocation' = <<m>>
               /\ NumSinkWrites(tasks', driverId, <<m.lat, m.lng>>)
                    = NumSinkWrites(tasks, driverId, <<m.lat, m.lng>>) + 1
               /\ UNCHANGED <<isTracking, watchIdRef, intervalRef, watches, intervals>>
      ]_vars

\* C16 (amended): the same, the write starting exactly when the hook holds a
\* driverId; without one the fix is replaced and no call is started.
C16_ManualUpdateWritesForDriver ==
    [][\A m \in ManualFixes :
           ~isTracking /\ UpdateLocation(m.lat, m.lng, m.timestamp) =>
               /\ currentLocation' = <<m>>
               /\ UNCHANGED <<isTracking, error, watchIdRef, intervalRef, watches,
                              intervals>>
               /\ IF driverId # ""
                  THEN /\ NumSinkWrites(tasks', driverId, <<m.lat, m.lng>>)
                            = NumSinkWrites(tasks, driverId, <<m.lat, m.lng>>) + 1
                       /\ BagCardinality(tasks') = BagCardinality(tasks) + 1
                  ELSE tasks' = tasks
      ]_vars

\* an inactive session without handles shows a manual fix whose write is in
\* flight
C16_Witness ==
    /\ ~isTracking
    /\ BothHandlesNull
    /\ watches = {}
    /\ currentLocation # NoLocation
    /\ currentLocation[1] \in ManualFixes
    /\ \E t \in TaskSet :
           /\ t.kind = "manual"
           /\ t.write = <<currentLocation[1].lat, currentLocation[1].lng>>

\* the rejection of getCurrentPosition the claim expects for error code c
ExpectedRejection(c) ==
    [ok |-> FALSE, pos |-> << >>,
     msg |-> CASE c = "PERMISSION_DENIED" -> BlockedMsg
               [] c = "POSITION_UNAVAILABLE" -> UnavailableMsg
               [] c = "TIMEOUT" -> RequestTimeoutMsg]

\* C17: when the first getCurrentPosition of startTracking rejects, the
\* error becomes the message of the cause the sensor reported (each cause
\* has its own message), the flag is false, the call ends, and no
\* registration, ref, fix or write changes.
C17_InitialFixFailureAborts ==
    [][\A t \in TaskSet, o \in GetCurrentPositionOutcomes :
           ~o.ok /\ StartPositionResolve(t, o) =>
               /\ \E c \in SensorCauses : o = ExpectedRejection(c)
               /\ \A c \in SensorCauses : ExpectedRejection(c) \in GetCurrentPositionOutcomes
               /\ error' = o.msg
               /\ ~isTracking'
               /\ tasks' = RemoveTask(tasks, t)
               /\ UNCHANGED <<currentLocation, watchIdRef, intervalRef, watches,
                              intervals>>
      ]_vars

\* an activation has failed on its first position request: nothing was ever
\* registered or delivered
C17_Witness ==
    /\ geoSupported
    /\ error \in {BlockedMsg, UnavailableMsg, RequestTimeoutMsg}
    /\ ~isTracking
    /\ currentLocation = NoLocation
    /\ watches = {} /\ intervals = {}
    /\ tasks = EmptyBag

\* C18: when the write of the first fix fails, startTracking shows the
\* failure in the error state and still registers the watch and the timer,
\* stores their handles and sets the flag.
C18_InitialWriteFailureKeepsActivation ==
    [][\A t \in TaskSet :
           StartSinkResolve(t, "error") =>
               /\ error' = UpdateFailedMsg
               /\ isTracking'
               /\ BothHandlesHeld'
               /\ watches' = watches \cup {[id |-> watchIdRef', subject |-> t.subject]}
               /\ intervals' = intervals \cup {[id |-> intervalRef', subject |-> t.subject]}
               /\ watchIdRef' \notin Ids(watches)
               /\ intervalRef' \notin Ids(intervals)
      ]_vars

\* a first activation that ended active while showing the failed write, no
\* other write having been started
C18_Witness ==
    /\ isTracking
    /\ error = UpdateFailedMsg
    /\ BothHandlesHeld
    /\ Cardinality(watches) = 1
    /\ tasks = EmptyBag
    /\ ~deactivated
    /\ permState = "denied"

\* a failure reaches the suspended call t in this step
FailureReaches(t) ==
    \/ \E o \in GetCurrentPositionOutcomes :
           ~o.ok /\ (StartPositionResolve(t, o) \/ PollPositionResolve(t, o))
    \/ UpdateDriverLocationResolve(t, "error")
    \/ StartSinkResolve(t, "error")

\* C19: no call ends by raising: every suspended call sits at an await of the
\* code (none is left rejected), a failed outcome ends or continues the call
\* it reaches and shows at most in the error and the flag, and a rejected
\* permission query lets startTracking go on to the sensor.
C19_NoOperationRaises ==
    /\ [](\A t \in TaskSet : t.pc \in {"perm", "pos", "sink"})
    /\ [][\A t \in TaskSet :
            /\ FailureReaches(t) =>
                 /\ tasks' = RemoveTask(tasks, t)
                 /\ currentLocation' = currentLocation
            /\ StartPermissionResolve(t, "rejected") =>
                 /\ tasks' = AddTask(RemoveTask(tasks, t),
                                     [t EXCEPT !.pc = "pos", !.denied = FALSE])
                 /\ UNCHANGED <<error, isTracking>>
         ]_vars

\* an updateLocation whose write failed has returned: the failure shows in
\* the error of a session that is neither active nor registered
C19_Witness ==
    /\ mounted
    /\ error = UpdateFailedMsg
    /\ ~isTracking
    /\ watches = {} /\ intervals = {}
    /\ tasks = EmptyBag
    /\ currentLocation # NoLocation
    /\ currentLocation[1] \in ManualFixes

\* the producer with subject s fires with position p in this step: a watch
\* callback, a poll completion, or the first fix of startTracking
Fired(s, p) ==
    \/ \E w \in watches : w.subject = s /\ WatchFix(w, p)
    \/ \E t \in TaskSet :
           /\ t.subject = s
           /\ PollPositionResolve(t, Delivered(p)) \/ StartPositionResolve(t, Delivered(p))

\* C20: fixes are dispatched in firing order: a producer that fires replaces
\* the current fix and starts its write in that very step, and the current
\* fix changes, or a write starts, only in a step where a producer fires with
\* that fix -- so both sequences equal the sequence of firings.
C20_DispatchInFiringOrder ==
    [][/\ \A s \in Subjects, p \in Positions :
            Fired(s, p) =>
                currentLocation' = <<LocationData(p)>> /\ OneWriteStarted(s, p)
       /\ currentLocation' # currentLocation =>
            \E s \in Subjects, p \in Positions :
                Fired(s, p) /\ currentLocation' = <<LocationData(p)>>
       /\ NumAllSinkWrites(tasks') > NumAllSinkWrites(tasks) =>
            \E s \in Subjects, p \in Positions : Fired(s, p) /\ OneWriteStarted(s, p)
      ]_vars

\* C20 for producers whose closure holds a driverId: what remains of the claim
\* once the empty subject is set aside
C20_FiringOrderWithDriver ==
    [][/\ \A s \in Subjects \ {""}, p \in Positions :
            Fired(s, p) =>
                currentLocation' = <<LocationData(p)>> /\ OneWriteStarted(s, p)
       /\ currentLocation' # currentLocation =>
            \E s \in Subjects, p \in Positions :
                Fired(s, p) /\ currentLocation' = <<LocationData(p)>>
       /\ NumAllSinkWrites(tasks') > NumAllSinkWrites(tasks) =>
            \E s \in Subjects, p \in Positions : Fired(s, p) /\ OneWriteStarted(s, p)
      ]_vars

C22_OnlyReferencedProducersLive ==
    Specific(driverId) =>
        /\ \A w \in watches : w.id = watchIdRef
        /\ \A i \in intervals : i.id = intervalRef

\* C23: when stopTracking has run, startTracking has not been called since,
\* and no startTracking call is suspended any more, the session is inactive
\* and holds no watch and no timer.  Stated for a specific driver.
C23_StopCancelsSuspendedActivation ==
    Specific(driverId) /\ deactivated /\ (\A t \in TaskSet : t.kind # "start") =>
        /\ ~isTracking
        /\ BothHandlesNull
        /\ watches = {} /\ intervals = {}

\* a watch callback or a poll completion of subject s fires with position p
SteadyFired(s, p) ==
    \/ \E w \in watches : w.subject = s /\ WatchFix(w, p)
    \/ \E t \in TaskSet : t.subject = s /\ PollPositionResolve(t, Delivered(p))

\* C24: a write started by a watch callback or a poll completion is for the
\* driverId the hook holds at that moment.  Stated for callbacks of a
\* specific driver, whose firing starts a write.
C24_WritesTargetCurrentSubject ==
    [][\A s \in Subjects, p \in Positions :
           Specific(s) /\ SteadyFired(s, p) /\ OneWriteStarted(s, p) => s = driverId]_vars

\* the coordinates of a current fix
Coords(loc) == <<loc[1].lat, loc[1].lng>>

\* C25: a realtime notification never puts older coordinates into the slot:
\* every notification echoes a write whose fix was dispatched no later than
\* the latest fix, so the coordinates it stores are those the slot holds.
\* Stated for a specific driver whose session has one watch registered and
\* no startTracking call suspended.
C25_LatestFixKept ==
    [][\A n \in echoes, at \in WriteTimes :
           (/\ Specific(n.subject)
            /\ Cardinality(watches) = 1
            /\ \A t \in TaskSet : t.kind # "start"
            /\ RealtimeNotify(n, at))
           => currentLocation # NoLocation /\ Coords(currentLocation') = Coords(currentLocation)
      ]_vars

\* C26: the subscribed channels are exactly: the channel of the current
\* driverId while the owner is mounted and the driverId is specific, and none
\* otherwise; a re-render or the unmount removes the channel of the driverId
\* it leaves.
C26_OneChannelForCurrentSubject ==
    /\ [](channels = IF mounted /\ driverId # "" /\ driverId # "all"
                     THEN {driverId} ELSE {})
    /\ [][(\E s \in Subjects : SetDriverId(s)) \/ Unmount => driverId \notin channels']_vars

\* the driverId went from a specific driver, whose watch is still registered,
\* to a sentinel: the driver's channel is gone
C26_Witness ==
    /\ mounted
    /\ ~Specific(driverId)
    /\ channels = {}
    /\ \E w \in watches : Specific(w.subject)

\* C27: startTracking runs, and the Start button can be clicked, only with
\* a specific driver selected, the session not marked active, hasPermission
\* true and permissionStatus other than 'denied'.
C27_StartOnlyWhenAllowed ==
    /\ [][StartTracking =>
             /\ driverId \notin {"", "all"}
             /\ ~isTracking
             /\ hasPermission
             /\ permissionStatus # "denied"]_vars
    /\ [](StartControlEnabled =>
             /\ driverId \notin {"", "all"}
             /\ ~isTracking
             /\ hasPermission
             /\ permissionStatus # "denied")

\* Start was clicked while the tracker knew the permission as 'prompt' and
\* the permission manager had reported a grant
C27_Witness ==
    /\ permissionStatus = "prompt"
    /\ hasPermission
    /\ ~isTracking
    /\ \E t \in TaskSet : t.kind = "start" /\ t.subject = driverId

\* the markers updateMapMarkers attaches for data D under filter sel
MarkersOf(D, sel) == UNION {MarkerKeys(r) : r \in FilteredData(D, sel)}

\* C28: once the map is loaded, the markers attached to the map are exactly
\* those of the current filtered tracking data (every data or filter change
\* is one step with its marker effect).
C28_MarkersMatchData ==
    mapLoaded => mapMarkers = MarkersOf(trackingData, selectedDriver)

\* C28 for non-empty tracking data: what remains of the claim when the data
\* never becomes empty in the step
C28_MarkersMatchNonEmptyData ==
    mapLoaded /\ trackingData # {} =>
        /\ mapMarkers = MarkersOf(trackingData, selectedDriver)
        /\ markersRef = mapMarkers

\* C29: every polyline attached to the map is referenced by the polyline
\* bookkeeping map under its booking key.
C29_AttachedPolylinesRecorded ==
    \A q \in mapPolylines : q \in polylinesRef

====
